---- MODULE Spec2Model ----
(***************************************************************************)
(* Vertigo micro-controller gateway (vertigo_docker_gateway.py) and the    *)
(* trigger-header parsing of the middleware base handler (base.py).        *)
(*                                                                         *)
(* Strings that the code slices or splits are sequences of tokens: an      *)
(* account is a sequence of characters, a header name the sequence of its  *)
(* dash-separated parts, an object name the sequence of its dot-separated  *)
(* parts, a comma-separated header value the sequence of its fields.       *)
(***************************************************************************)
EXTENDS Integers, Sequences, FiniteSets, TLC

\* ------------------------------------------------------------- bounds
\* longest handler list of one trigger
MaxChain == 2
\* invocations of execute_microcontrollers in one behaviour
MaxInvocations == 2
\* direct calls of the lifecycle operations in one behaviour
MaxCalls == 3
\* headers of one request to the base handler
MaxHeaders == 3
\* calls of set_microcontroller in one behaviour
MaxSets == 3
MaxMirrors == 2

\* ------------------------------------------------- program constants
SBUS_FD_INPUT_OBJECT == 0
SBUS_FD_OUTPUT_OBJECT == 1
SBUS_FD_OUTPUT_OBJECT_METADATA == 2
SBUS_FD_LOGGER == 4
SBUS_CMD_EXECUTE == 1
MC_MAIN_HEADER == "X-Object-Meta-Handler-Main"
MC_DEP_HEADER == "X-Object-Meta-Handler-Library-Dependency"

\* ------------------------------------------------------ string helpers
Min(a, b) == IF a < b THEN a ELSE b

\* Python s[lo:hi] for 0 <= lo <= hi
Slice(s, lo, hi) == SubSeq(s, lo + 1, Min(hi, Len(s)))

\* str.lower() on one character
LowerChar(c) ==
    CASE c = "A" -> "a"
      [] c = "U" -> "u"
      [] c = "T" -> "t"
      [] c = "H" -> "h"
      [] OTHER -> c

Lower(s) == [i \in 1..Len(s) |-> LowerChar(s[i])]

\* the literal 'auth_'
AuthPrefix == <<"a", "u", "t", "h", "_">>

\* the scope written into the internal client command line (line 67)
HardScope == <<"b", "d", "3", "4", "c", "4", "0", "7", "3", "b", "6", "5", "4">>

\* accounts of the deployment: two whose ids share their first 13
\* characters, and one of another tenant
Acc1 == <<"A", "U", "T", "H", "_">> \o HardScope
Acc2 == Acc1 \o <<"f">>
Acc3 == <<"A", "U", "T", "H", "_", "0", "1", "2", "3", "4", "5", "6", "7", "8", "9", "a", "b", "c">>
Accounts == {Acc1, Acc2, Acc3}

\* self.scope = account[5:18]
Scope(account) == Slice(account, 5, 18)

\* account id of start_container: the account without a leading 'auth_'
AccountId(account) ==
    IF Lower(Slice(account, 0, Len(AuthPrefix))) = AuthPrefix
    THEN Slice(account, Len(AuthPrefix), Len(account))
    ELSE account

\* docker_container_name = '%s_%s' % (docker_img_prefix, account_id)
ContainerName(account) == <<"vertigo", "_">> \o AccountId(account)

\* docker_image_name = '%s/%s' % (docker_repo, account_id)
ImageName(account) == <<"docker_repo", "/">> \o AccountId(account)

\* host_pipe_prefix = conf["pipes_dir"] + "/" + scope
HostPipePrefix(account) == <<"pipes_dir", "/">> \o Scope(account)

\* host_storlet_prefix = conf["mc_dir"] + "/" + scope
HostMcPrefix(account) == <<"mc_dir", "/">> \o Scope(account)

\* mc_pipe_path = conf["pipes_dir"] + "/" + scope + "/" + conf["mc_pipe"]
McPipePath(account) == HostPipePrefix(account) \o <<"/", "mc_pipe">>

\* mc_logger_path = conf["log_dir"] + "/" + scope + "/"
McLoggerPath(account) == <<"log_dir", "/">> \o Scope(account) \o <<"/">>

\* the pipe the internal client daemon is started on; conf["pipes_dir"] is
\* the directory /home/lxc_device/pipes/scopes of that command line
InternalClientPipe == <<"pipes_dir", "/">> \o HardScope \o <<"/", "internal_client_pipe">>

\* the pipe an internal client daemon of a scope listens on
ScopeClientPipe(scope) == <<"pipes_dir", "/">> \o scope \o <<"/", "internal_client_pipe">>

\* ------------------------------------------------------------ the store
\* handler objects of conf["mc_container"], dot-separated
NameA == <<"a", "mc">>
NameB == <<"b", "mc">>
HandlerNames == {NameA, NameB}

\* dependency objects of conf["mc_dependency"]
Dep1 == <<"d1", "jar">>
Dep2 == <<"d2", "jar">>

\* the headers a HEAD of a handler object answers with: its main class and
\* its comma-separated dependency list, field by field
StoreHeaders(mc_name) ==
    IF mc_name = NameA
    THEN [h \in {MC_MAIN_HEADER, MC_DEP_HEADER} |->
             IF h = MC_MAIN_HEADER THEN <<"MainA">> ELSE <<Dep1>>]
    ELSE [h \in {MC_MAIN_HEADER, MC_DEP_HEADER} |->
             IF h = MC_MAIN_HEADER THEN <<"MainB">> ELSE <<Dep1, Dep2>>]

\* status codes a HEAD can answer with
StatusCodes == {200, 300, 404}

\* the handler lists of a trigger
Chains == UNION {[1..k -> HandlerNames] : k \in 1..MaxChain}

\* request headers as the proxy hands them over (HeaderKeyDict keys)
ReqHeaderSets == {{"X-Auth-Token"}, {"X-Auth-Token", "X-Service-Catalog", "Cookie"}}

\* the object server's response headers of the requested object
FileHeaders == [h \in {"Content-Length"} |-> "v"]

\* what the sandbox writes on the output pipe
Payloads == {"{}", "{ }", "{\"k\": 1}", "garbage"}

VARIABLES
    \* the machine: docker containers, internal client daemon processes
    containers, icProcs,
    \* the server process: raw descriptors left open by finished invocations
    leaked, invocations,
    \* VertigoGatewayDocker
    pc, account, mc_list, req_headers, mc_metadata, ri, events, mirrored,
    launch_failed, outcome,
    \* MicroControllerInvocationProtocol
    req_md, micro_controllers, oi, handles, fds, fdmd, sends, invoke_raised,
    task_id, waited, cancels, flat_json, out_data,
    \* direct calls of the lifecycle operations
    lifeLog,
    \* VertigoBaseHandler: the request and what the parsing of it gave
    request_headers, header_result,
    \* set_microcontroller: the module's DEFAULT_MD_STRING, the objects'
    \* trigger metadata, the .md files written, the calls made
    DEFAULT_MD_STRING, object_md, md_files, set_log,
    \* get_microcontrollers: what the last call gave
    get_result,
    \* MicroController objects whose open and close are called directly
    handlers,
    \* update_mc_cache of overlapping invocations on one cache entry: each
    \* one's position, response body and file offset, the directory and the
    \* file of the entry, the invocation that closed last, and what the
    \* sandbox last read at the entry's path
    cache_pc, cache_body, cache_off, cache_dir, cache_file, cache_last, cache_seen,
    \* start_internal_client_daemon of overlapping invocations: each one's
    \* position, the pids its ps gave, and what its launch did
    daemon_pc, daemon_pid, daemon_launch

machineVars == <<containers, icProcs>>
processVars == <<leaked, invocations>>
gatewayVars == <<account, mc_list, req_headers, mc_metadata, ri, events, mirrored, launch_failed>>
protocolVars == <<req_md, micro_controllers, oi, handles, fds, fdmd, sends, invoke_raised,
                  task_id, waited, cancels, flat_json, out_data>>
invocationVars == <<processVars, pc, outcome, gatewayVars, protocolVars>>
lifeVars == <<lifeLog>>
headerVars == <<request_headers, header_result>>
metadataVars == <<DEFAULT_MD_STRING, object_md, md_files, set_log, get_result>>
\* what an invocation leaves alone
handleVars == <<handlers>>
cacheVars == <<cache_pc, cache_body, cache_off, cache_dir, cache_file, cache_last,
               cache_seen>>

daemonVars == <<daemon_pc, daemon_pid, daemon_launch>>

notCacheVars == <<machineVars, invocationVars, lifeVars, headerVars, metadataVars,
                  handleVars, daemonVars>>
notDaemonVars == <<containers, invocationVars, lifeVars, headerVars, metadataVars,
                   handleVars, cacheVars>>
notInvocationVars == <<lifeVars, headerVars, metadataVars, handleVars, cacheVars,
                       daemonVars>>
vars == <<machineVars, invocationVars, lifeVars, headerVars, metadataVars, handleVars,
          cacheVars, daemonVars>>

None == "None"

\* ------------------------------------------------ sandbox lifecycle
\* ps -aef | grep internal_client_daemon.py: the pids found
InternalClientPids(procs) == procs

\* start_internal_client_daemon (lines 55-83): launches the daemon on the
\* pipe of its command line when ps shows none; `launch` is what the shell
\* command does: "started" (p = 0, daemon up), "died" (p = 0, the daemon
\* exits at once) or "failed" (p # 0); either way the code only logs
StartInternalClientDaemonProcs(procs, launch) ==
    IF InternalClientPids(procs) # <<>>
    THEN procs
    ELSE IF launch = "started" THEN Append(procs, InternalClientPipe) ELSE procs

\* docker run without --name: nothing is ever in its way
DockerRunNoName(cs, name, image, pipe_mount, mc_mount, launch) ==
    IF launch = "ok"
    THEN [rc |-> 0, why |-> "started",
          containers |-> Append(cs, [name |-> name, image |-> image,
                                     pipe_mount |-> pipe_mount, mc_mount |-> mc_mount,
                                     running |-> TRUE])]
    ELSE [rc |-> 125, why |-> "other", containers |-> cs]

\* sudo docker run --net=none --name NAME -d -v PIPES -v MC IMAGE ...
\* (lines 107-116) on the docker daemon's containers cs: refused when the
\* name is taken; otherwise `launch` says whether the image can be started
\* ("ok") or not ("fail": no image, no docker daemon, no sudo)
DockerRun(cs, name, image, pipe_mount, mc_mount, launch) ==
    IF \E i \in 1..Len(cs) : cs[i].name = name
    THEN [rc |-> 125, why |-> "exists", containers |-> cs]
    ELSE IF launch = "ok"
    THEN [rc |-> 0, why |-> "started",
          containers |-> Append(cs, [name |-> name, image |-> image,
                                     pipe_mount |-> pipe_mount, mc_mount |-> mc_mount,
                                     running |-> TRUE])]
    ELSE [rc |-> 125, why |-> "other", containers |-> cs]

\* start_container (lines 85-116): the docker run of the account
StartContainerRun(cs, acc, launch) ==
    DockerRun(cs, ContainerName(acc), ImageName(acc),
              <<HostPipePrefix(acc), "/mnt/channels">>,
              <<HostMcPrefix(acc), "/home/swift">>, launch)

\* start_container (lines 118-124): what it raises on the exit status p
StartContainerRaises(p) == FALSE

\* ------------------------------------- handler cache and access verifier
\* verify_access (line 229): the status check, with its upper bound slipped
StatusOkInclusive(status_int) == status_int <= 300 /\ status_int >= 200

\* verify_access (line 229)
StatusOk(status_int) == status_int < 300 /\ status_int >= 200

\* verify_access taking every answer for a success
VerifyAccessAlways(md, container, mc_name, status_int) ==
    [ok |-> TRUE,
     md |-> IF container = "mc_container"
            THEN (mc_name :> StoreHeaders(mc_name)) @@ md
            ELSE md]

\* verify_access (lines 226-234) on a HEAD answering `status_int`: the
\* result and self.mc_metadata afterwards
VerifyAccess(md, container, mc_name, status_int) ==
    IF StatusOk(status_int)
    THEN [ok |-> TRUE,
          md |-> IF container = "mc_container"
                 THEN (mc_name :> StoreHeaders(mc_name)) @@ md
                 ELSE md]
    ELSE [ok |-> FALSE, md |-> md]

HeadEvent(container, obj, status_int) ==
    [op |-> "HEAD", container |-> container, obj |-> obj, status |-> status_int]

\* update_mc_cache (lines 236-248): the GET and the file it writes, at
\* conf["mc_dir"]/scope/<main class of mc_name>/obj
UpdateMcCache(md, acc, container, mc_name, obj) ==
    [op |-> "GET", container |-> container, obj |-> obj,
     path |-> <<HostMcPrefix(acc), md[mc_name][MC_MAIN_HEADER], obj>>]

\* the dependency loop of execute_microcontrollers (lines 193-201) from the
\* j-th dependency on: the requests it makes, up to the first one not found
RECURSIVE DepLoop(_, _, _, _, _, _)
DepLoop(md, acc, mc_name, dep_list, dst, j) ==
    IF j > Len(dep_list)
    THEN <<>>
    ELSE IF VerifyAccess(md, "mc_dependency", dep_list[j], dst[j]).ok
    THEN <<HeadEvent("mc_dependency", dep_list[j], dst[j]),
           UpdateMcCache(md, acc, "mc_dependency", mc_name, dep_list[j])>>
         \o DepLoop(md, acc, mc_name, dep_list, dst, j + 1)
    ELSE <<HeadEvent("mc_dependency", dep_list[j], dst[j])>>

\* one round of the loop of execute_microcontrollers (lines 187-204) for
\* mc_name, the HEADs answering st (handler) and dst (its dependencies)
ResolveRound(md, acc, mc_name, st, dst) ==
    LET v == VerifyAccess(md, "mc_container", mc_name, st)
        dep_list == v.md[mc_name][MC_DEP_HEADER]
    IN  IF ~v.ok
        THEN [raised |-> TRUE, md |-> md,
              events |-> <<HeadEvent("mc_container", mc_name, st)>>]
        ELSE [raised |-> \E j \in 1..Len(dep_list) :
                             ~VerifyAccess(v.md, "mc_dependency", dep_list[j], dst[j]).ok,
              md |-> v.md,
              events |-> <<HeadEvent("mc_container", mc_name, st),
                           UpdateMcCache(v.md, acc, "mc_container", mc_name, mc_name)>>
                         \o DepLoop(v.md, acc, mc_name, dep_list, dst, 1)]

\* ------------------------------------------------ invocation protocol
\* name.rsplit('.', 1)[0]
BaseName(name) == IF Len(name) > 1 THEN SubSeq(name, 1, Len(name) - 1) ELSE name

\* MicroController.__init__ (lines 398-409)
MicroController(file_path, logger_path, name, main, dependencies) ==
    [micro_controller |-> name,
     main_class |-> main,
     dependencies |-> dependencies,
     full_md_path |-> <<file_path, BaseName(name), "md">>,
     full_log_path |-> <<logger_path, main, BaseName(name), "log">>]

\* the first loop of communicate (lines 368-374)
MicroControllers(acc, l, md) ==
    [i \in 1..Len(l) |->
        MicroController("file_path", McLoggerPath(acc), l[i],
                        md[l[i]][MC_MAIN_HEADER], md[l[i]][MC_DEP_HEADER])]

\* descriptors of one invocation, by the attribute that holds them
ResponseReadFd == <<"response_read_fd", 0>>
ResponseWriteFd == <<"response_write_fd", 0>>
NullReadFd == <<"null_read_fd", 0>>
NullWriteFd == <<"null_write_fd", 0>>
MetadataFile(i) == <<"metadata_file", i>>
LoggerFile(i) == <<"logger_file", i>>
RawFds == {ResponseReadFd, ResponseWriteFd, NullReadFd, NullWriteFd}

Opened(h, keys) == [k \in keys |-> [open |-> TRUE, closes |-> 0]] @@ h

\* os.close / file.close of a descriptor the invocation holds
Close(h, k) ==
    IF k \in DOMAIN h
    THEN [h EXCEPT ![k] = [open |-> FALSE, closes |-> @.closes + 1]]
    ELSE h

\* MicroController.close (lines 434-436) of each handler from the i-th on
RECURSIVE CloseAll(_, _, _)
CloseAll(h, mcs, i) ==
    IF i > Len(mcs)
    THEN h
    ELSE CloseAll(Close(Close(h, MetadataFile(i)), LoggerFile(i)), mcs, i + 1)

\* a finally block that closes the remote side only
FinallyCloseRemoteOnly(h, mcs) == Close(h, ResponseWriteFd)

\* the finally block of communicate (lines 385-388):
\* _close_remote_side_descriptors, then close of every handler; the write
\* end is a descriptor above the standard streams, so `if
\* self.response_write_fd` holds whenever the pipe exists
FinallyClose(h, mcs) == CloseAll(Close(h, ResponseWriteFd), mcs, 1)

\* _add_file_req_md deleting the Cookie header only
StripCookieOnly(md) ==
    [h \in DOMAIN md \ {"Cookie"} |-> md[h]]

\* _add_file_req_md (lines 302-315): the request metadata without the
\* transport headers
StripHeaders(md) ==
    [h \in DOMAIN md \ {"X-Service-Catalog", "Cookie"} |-> md[h]]

AddFileReqMd(md, file_md) ==
    [fd |-> NullWriteFd,
     md |-> [type |-> SBUS_FD_INPUT_OBJECT,
             json_md |-> [req_md |-> StripHeaders(md), file_md |-> file_md]]]

\* _add_output_stream handing over the read end
AddOutputStreamReadEnd ==
    [fd |-> ResponseReadFd, md |-> [type |-> SBUS_FD_OUTPUT_OBJECT]]

\* _add_output_stream (lines 278-282)
AddOutputStream ==
    [fd |-> ResponseWriteFd, md |-> [type |-> SBUS_FD_OUTPUT_OBJECT]]

\* _add_logger_stream (lines 284-290), in reverse handler order
AddLoggerStreamReversed(mcs) ==
    [i \in 1..Len(mcs) |->
        [fd |-> LoggerFile(Len(mcs) + 1 - i),
         md |-> [type |-> SBUS_FD_LOGGER,
                 handler |-> mcs[Len(mcs) + 1 - i].micro_controller]]]

\* _add_logger_stream (lines 284-290)
AddLoggerStream(mcs) ==
    [i \in 1..Len(mcs) |->
        [fd |-> LoggerFile(i),
         md |-> [type |-> SBUS_FD_LOGGER, handler |-> mcs[i].micro_controller]]]

\* _add_metadata_stream (lines 292-300)
AddMetadataStream(mcs) ==
    [i \in 1..Len(mcs) |->
        [fd |-> MetadataFile(i),
         md |-> [type |-> SBUS_FD_OUTPUT_OBJECT_METADATA,
                 handler |-> mcs[i].micro_controller,
                 main |-> mcs[i].main_class,
                 dependencies |-> mcs[i].dependencies]]]

\* _prepare_invocation_descriptors (lines 322-329): the entries in order
InvocationDescriptors(md, file_md, mcs) ==
    <<AddFileReqMd(md, file_md), AddOutputStream>>
    \o AddLoggerStream(mcs) \o AddMetadataStream(mcs)

\* json.loads taking whatever does not parse for no output
JsonLoadsLenient(text) ==
    IF text = "{\"k\": 1}"
    THEN [raised |-> FALSE, value |-> "dict_k_1"]
    ELSE IF text \in {"{}", "{ }"}
    THEN [raised |-> FALSE, value |-> "dict_empty"]
    ELSE [raised |-> FALSE, value |-> None]

\* json.loads of the payloads the sandbox writes
JsonLoads(text) ==
    IF text = "{\"k\": 1}"
    THEN [raised |-> FALSE, value |-> "dict_k_1"]
    ELSE IF text \in {"{}", "{ }"}
    THEN [raised |-> FALSE, value |-> "dict_empty"]
    ELSE [raised |-> TRUE, value |-> None]

\* ------------------------------------------------------------- Spec
\* one server process serving invocations one after another
NoProtocol ==
    /\ req_md = <<>>
    /\ micro_controllers = <<>>
    /\ oi = 1
    /\ handles = <<>>
    /\ fds = <<>>
    /\ fdmd = <<>>
    /\ sends = <<>>
    /\ invoke_raised = FALSE
    /\ task_id = None
    /\ waited = None
    /\ flat_json = None
    /\ cancels = 0
    /\ out_data = None

MachineInit ==
    /\ containers = <<>>
    /\ icProcs = <<>>

InvocationInit ==
    /\ leaked = 0
    /\ invocations = 0
    /\ pc = "idle"
    /\ outcome = None
    /\ account = Acc1
    /\ mc_list = <<>>
    /\ req_headers = <<>>
    /\ mc_metadata = <<>>
    /\ ri = 1
    /\ events = <<>>
    /\ mirrored = {}
    /\ launch_failed = FALSE
    /\ NoProtocol

\* the 'None' of an unset trigger: one field, one part
NoneString == <<<<"None">>>>

Triggers == {"onget", "onput", "ondelete", "ontimer"}

\* DEFAULT_MD_STRING as the module defines it (lines 23-26)
DefaultMdString == [t \in Triggers |-> NoneString]

Objects == {"o1", "o2"}

LifeInit == lifeLog = <<>>

HeaderInit ==
    /\ request_headers = <<>>
    /\ header_result = <<>>

MetadataInit ==
    /\ DEFAULT_MD_STRING = DefaultMdString
    /\ object_md = [o \in Objects |-> <<>>]
    /\ md_files = {}
    /\ set_log = <<>>
    /\ get_result = <<>>

\* a MicroController as __init__ (lines 398-409) leaves it: neither
\* metadata_file nor logger_file is an attribute yet
NewMicroController ==
    [opened |-> None, attrs |-> {}, closed_files |-> <<>>,
     close_calls |-> 0, closed |-> None]

HandleInit ==
    handlers = [i \in 1..MaxChain |-> NewMicroController]

\* the invocations that mirror the entry
Mirrors == 1..MaxMirrors

\* bodies the store may answer the GET with, as the chunks written to the file
Bodies == {<<"v1", "v1">>, <<"v2", "v2">>}

\* no mirror has begun; the scope's handler directory is not there yet
CacheInit ==
    /\ cache_pc = [w \in Mirrors |-> "get"]
    /\ cache_body = [w \in Mirrors |-> <<>>]
    /\ cache_off = [w \in Mirrors |-> 0]
    /\ cache_dir = FALSE
    /\ cache_file = [exists |-> FALSE, content |-> <<>>]
    /\ cache_last = 0
    /\ cache_seen = [read |-> FALSE, exists |-> FALSE, content |-> <<>>]

\* the invocations that call start_internal_client_daemon
Callers == 1..MaxCalls

DaemonInit ==
    /\ daemon_pc = [c \in Callers |-> "ps"]
    /\ daemon_pid = [c \in Callers |-> <<>>]
    /\ daemon_launch = [c \in Callers |-> None]

Init ==
    /\ MachineInit
    /\ InvocationInit
    /\ LifeInit
    /\ HeaderInit
    /\ MetadataInit
    /\ HandleInit
    /\ CacheInit
    /\ DaemonInit

\* raw descriptors an invocation holds open
OpenRaw(h) == Cardinality({k \in DOMAIN h \cap RawFds : h[k].open})

\* a request arrives: VertigoGatewayDocker.__init__ (lines 31-53) with the
\* handler list of its trigger (lines 152-153, 163)
Begin ==
    /\ UNCHANGED notInvocationVars
    /\ pc = "idle"
    /\ invocations < MaxInvocations
    /\ \E acc \in Accounts, l \in Chains, hs \in ReqHeaderSets :
         /\ account' = acc
         /\ mc_list' = l
         /\ req_headers' = [h \in hs |-> "v"]
    /\ invocations' = invocations + 1
    /\ pc' = "start_internal_client_daemon"
    /\ UNCHANGED <<machineVars, leaked, outcome, mc_metadata, ri, events, mirrored,
                   launch_failed, protocolVars>>

\* execute_microcontrollers has returned or raised (line 224): the request is
\* answered and the gateway and protocol objects go away; the raw
\* descriptors they held open stay open in the server process
Return ==
    /\ UNCHANGED notInvocationVars
    /\ pc = "done"
    /\ leaked' = leaked + OpenRaw(handles)
    /\ pc' = "idle"
    /\ outcome' = None
    /\ account' = Acc1
    /\ mc_list' = <<>>
    /\ req_headers' = <<>>
    /\ mc_metadata' = <<>>
    /\ ri' = 1
    /\ events' = <<>>
    /\ mirrored' = {}
    /\ launch_failed' = FALSE
    /\ req_md' = <<>>
    /\ micro_controllers' = <<>>
    /\ oi' = 1
    /\ handles' = <<>>
    /\ fds' = <<>>
    /\ fdmd' = <<>>
    /\ sends' = <<>>
    /\ invoke_raised' = FALSE
    /\ task_id' = None
    /\ waited' = None
    /\ flat_json' = None
    /\ cancels' = 0
    /\ out_data' = None
    /\ UNCHANGED <<machineVars, invocations>>

\* execute_microcontrollers, line 173
StartInternalClientDaemon ==
    /\ UNCHANGED notInvocationVars
    /\ pc = "start_internal_client_daemon"
    /\ \E launch \in {"started", "died", "failed"} :
         icProcs' = StartInternalClientDaemonProcs(icProcs, launch)
    /\ pc' = "start_container"
    /\ UNCHANGED <<containers, processVars, outcome, gatewayVars, protocolVars>>

\* execute_microcontrollers, line 175
StartContainer ==
    /\ UNCHANGED notInvocationVars
    /\ pc = "start_container"
    /\ \E launch \in {"ok", "fail"} :
         LET r == StartContainerRun(containers, account, launch)
         IN  /\ containers' = r.containers
             /\ launch_failed' = (r.why = "other")
             /\ IF StartContainerRaises(r.rc)
                THEN pc' = "done" /\ outcome' = "SandboxUnavailable"
                ELSE pc' = "resolve" /\ outcome' = outcome
    /\ UNCHANGED <<icProcs, processVars, account, mc_list, req_headers, mc_metadata,
                   ri, events, mirrored, protocolVars>>

\* execute_microcontrollers, lines 187-204: one round of the loop
ResolveHandler ==
    /\ UNCHANGED notInvocationVars
    /\ pc = "resolve"
    /\ ri <= Len(mc_list)
    /\ \E st \in StatusCodes :
       \E dst \in [1..Len(StoreHeaders(mc_list[ri])[MC_DEP_HEADER]) -> StatusCodes] :
         LET r == ResolveRound(mc_metadata, account, mc_list[ri], st, dst)
         IN  /\ mc_metadata' = r.md
             /\ events' = events \o r.events
             /\ mirrored' = mirrored \cup
                    {r.events[i].path : i \in {j \in 1..Len(r.events) : r.events[j].op = "GET"}}
             /\ IF r.raised
                THEN pc' = "done" /\ outcome' = "NameError" /\ ri' = ri
                ELSE pc' = "resolve" /\ outcome' = outcome /\ ri' = ri + 1
    /\ UNCHANGED <<machineVars, processVars, account, mc_list, req_headers,
                   launch_failed, protocolVars>>

\* execute_microcontrollers, lines 206-224, and the first loop of
\* communicate (lines 368-374)
Communicate ==
    /\ UNCHANGED notInvocationVars
    /\ pc = "resolve"
    /\ ri > Len(mc_list)
    /\ req_headers' = ("X-Current-Server" :> "current_server") @@ req_headers
    /\ req_md' = req_headers'
    /\ micro_controllers' = MicroControllers(account, mc_list, mc_metadata)
    /\ oi' = 1
    /\ pc' = "open"
    /\ UNCHANGED <<machineVars, processVars, outcome, account, mc_list, mc_metadata,
                   ri, events, mirrored, launch_failed, handles, fds, fdmd, sends,
                   invoke_raised, task_id, waited, cancels, flat_json, out_data>>

\* communicate, lines 376-377: MicroController.open (lines 411-413) of the
\* next handler; either open() may raise IOError
OpenHandler ==
    /\ UNCHANGED notInvocationVars
    /\ pc = "open"
    /\ oi <= Len(micro_controllers)
    /\ \E io \in {"ok", "metadata_fails", "logger_fails"} :
         /\ handles' = CASE io = "ok" -> Opened(handles, {MetadataFile(oi), LoggerFile(oi)})
                         [] io = "logger_fails" -> Opened(handles, {MetadataFile(oi)})
                         [] OTHER -> handles
         /\ IF io = "ok"
            THEN /\ oi' = oi + 1
                 /\ pc' = IF oi = Len(micro_controllers) THEN "prepare" ELSE "open"
                 /\ outcome' = outcome
            ELSE /\ oi' = oi
                 /\ pc' = "done"
                 /\ outcome' = "IOError"
    /\ UNCHANGED <<machineVars, processVars, gatewayVars, req_md, micro_controllers,
                   fds, fdmd, sends, invoke_raised, task_id, waited, cancels, flat_json, out_data>>

\* communicate, line 379: _prepare_invocation_descriptors (lines 317-329);
\* either os.pipe() may raise OSError
PrepareInvocationDescriptors ==
    /\ UNCHANGED notInvocationVars
    /\ pc = "prepare"
    /\ \E io \in {"ok", "first_pipe_fails", "second_pipe_fails"} :
         /\ handles' = CASE io = "ok" -> Opened(handles, RawFds)
                         [] io = "second_pipe_fails" ->
                                Opened(handles, {ResponseReadFd, ResponseWriteFd})
                         [] OTHER -> handles
         /\ IF io = "ok"
            THEN LET d == InvocationDescriptors(req_md, FileHeaders, micro_controllers)
                 IN  /\ fds' = [i \in 1..Len(d) |-> d[i].fd]
                     /\ fdmd' = [i \in 1..Len(d) |-> d[i].md]
                     /\ req_md' = StripHeaders(req_md)
                     /\ pc' = "invoke"
                     /\ outcome' = outcome
            ELSE /\ UNCHANGED <<fds, fdmd, req_md>>
                 /\ pc' = "done"
                 /\ outcome' = "OSError"
    /\ UNCHANGED <<machineVars, processVars, gatewayVars, micro_controllers, oi,
                   sends, invoke_raised, task_id, waited, cancels, flat_json, out_data>>

\* _invoke raising only on a status below -1
InvokeRaisesBelowMinusOne(rc) == rc < -1

\* _invoke (line 344): what it raises on the status of the send
InvokeRaises(rc) == rc < 0

\* communicate, line 382: _invoke (lines 335-345)
Invoke ==
    /\ UNCHANGED notInvocationVars
    /\ pc = "invoke"
    /\ \E rc \in {-1, 0, 1} :
         /\ sends' = Append(sends, [path |-> McPipePath(account), files |-> fds,
                                    metadata |-> fdmd, command |-> SBUS_CMD_EXECUTE,
                                    rc |-> rc])
         /\ invoke_raised' = InvokeRaises(rc)
    /\ pc' = "finally"
    /\ UNCHANGED <<machineVars, processVars, outcome, gatewayVars, req_md,
                   micro_controllers, oi, handles, fds, fdmd, task_id, waited, cancels, flat_json, out_data>>

\* communicate, lines 383-388: the finally block, then the re-raise
Finally ==
    /\ UNCHANGED notInvocationVars
    /\ pc = "finally"
    /\ handles' = FinallyClose(handles, micro_controllers)
    /\ IF invoke_raised
       THEN pc' = "done" /\ outcome' = "Exception"
       ELSE pc' = "read_response" /\ outcome' = outcome
    /\ UNCHANGED <<machineVars, processVars, gatewayVars, req_md, micro_controllers,
                   oi, fds, fdmd, sends, invoke_raised, task_id, waited, cancels, flat_json, out_data>>

\* _wait_for_read_with_timeout cancelling on every expiry
CancelsAlways(tid) == TRUE

\* _wait_for_read_with_timeout (line 350): `if self.task_id` before
\* self._cancel()
CancelsOnExpiry(tid) == tid # None

\* communicate, lines 390-393: _read_response (lines 356-365) with
\* _wait_for_read_with_timeout (lines 347-354), then the close of the read end
ReadResponse ==
    /\ UNCHANGED notInvocationVars
    /\ pc = "read_response"
    /\ \/ \* select returns nothing within the timeout
          /\ waited' = "expired"
          /\ cancels' = IF CancelsOnExpiry(task_id) THEN cancels + 1 ELSE cancels
          /\ outcome' = "Timeout"
          /\ UNCHANGED <<handles, flat_json, out_data>>
       \/ \E data \in Payloads :
            LET parsed == JsonLoads(data)
            IN  /\ waited' = "ready"
                /\ flat_json' = data
                /\ IF data # "{}" /\ parsed.raised
                   THEN /\ outcome' = "ValueError"
                        /\ UNCHANGED <<handles, out_data, cancels>>
                   ELSE /\ out_data' = IF data = "{}" THEN None ELSE parsed.value
                        /\ handles' = Close(handles, ResponseReadFd)
                        /\ outcome' = "Completed"
                        /\ UNCHANGED cancels
    /\ pc' = "done"
    /\ UNCHANGED <<machineVars, processVars, gatewayVars, req_md, micro_controllers,
                   oi, fds, fdmd, sends, invoke_raised, task_id>>

Next ==
    \/ Begin
    \/ Return
    \/ StartInternalClientDaemon
    \/ StartContainer
    \/ ResolveHandler
    \/ Communicate
    \/ OpenHandler
    \/ PrepareInvocationDescriptors
    \/ Invoke
    \/ Finally
    \/ ReadResponse

Spec == Init /\ [][Next]_vars

\* --------------------------------------------------------- SpecLife
\* the lifecycle operations called one after another on gateways of any
\* account, each call logged with the machine before and after it

\* start_container (lines 85-124) of a gateway of account acc
CallStartContainer ==
    /\ Len(lifeLog) < MaxCalls
    /\ \E acc \in Accounts, launch \in {"ok", "fail"} :
         LET r == StartContainerRun(containers, acc, launch)
         IN  /\ containers' = r.containers
             /\ lifeLog' = Append(lifeLog,
                    [op |-> "start_container", account |-> acc, why |-> r.why,
                     raised |-> StartContainerRaises(r.rc),
                     before |-> containers, after |-> r.containers])
    /\ UNCHANGED <<icProcs, invocationVars, headerVars, metadataVars, handleVars,
                   cacheVars, daemonVars>>

\* start_internal_client_daemon (lines 55-83) of a gateway of account acc
CallStartInternalClientDaemon ==
    /\ Len(lifeLog) < MaxCalls
    /\ \E acc \in Accounts, launch \in {"started", "died", "failed"} :
         /\ icProcs' = StartInternalClientDaemonProcs(icProcs, launch)
         /\ lifeLog' = Append(lifeLog,
                [op |-> "start_internal_client_daemon", account |-> acc,
                 why |-> launch, raised |-> FALSE,
                 before |-> icProcs, after |-> icProcs'])
    /\ UNCHANGED <<containers, invocationVars, headerVars, metadataVars, handleVars,
                   cacheVars, daemonVars>>

NextLife ==
    \/ CallStartContainer
    \/ CallStartInternalClientDaemon

SpecLife == Init /\ [][NextLife]_vars

\* ----------------------------------------------------------- SpecHdr
\* VertigoBaseHandler on one request: header names are the sequences of
\* their dash-separated parts, as HeaderKeyDict capitalizes them

\* base.py lines 50-53
available_assignation_headers ==
    << <<"X", "Vertigo", "Onget">>,
       <<"X", "Vertigo", "Ondelete">>,
       <<"X", "Vertigo", "Onput">>,
       <<"X", "Vertigo", "Ontimer">> >>

\* base.py lines 54-58
available_deletion_headers ==
    << <<"X", "Vertigo", "Onget", "Delete">>,
       <<"X", "Vertigo", "Ondelete", "Delete">>,
       <<"X", "Vertigo", "Onput", "Delete">>,
       <<"X", "Vertigo", "Ontimer", "Delete">>,
       <<"X", "Vertigo", "Delete">> >>

Range(f) == {f[i] : i \in DOMAIN f}

\* the headers a request can carry
HeaderUniverse ==
    Range(available_assignation_headers) \cup Range(available_deletion_headers)
    \cup {<<"X", "Auth", "Token">>}

\* the header values: handler lists, comma-separated
McValues == {<<NameA>>, <<NameA, NameB>>}

HeaderRequests ==
    UNION {[hs -> McValues] :
              hs \in {x \in SUBSET HeaderUniverse : Cardinality(x) <= MaxHeaders}}

\* s.rsplit(sep, n) of a string of parts: the items from the second on are
\* single parts, the first the parts left of them
RSplit(s, n) ==
    IF Len(s) > n
    THEN <<SubSeq(s, 1, Len(s) - n)>> \o [i \in 1..n |-> s[Len(s) - n + i]]
    ELSE s

\* str.lower() on one part of a header name
LowerWord(w) ==
    CASE w = "Onget" -> "onget"
      [] w = "Onput" -> "onput"
      [] w = "Ondelete" -> "ondelete"
      [] w = "Ontimer" -> "ontimer"
      [] w = "Vertigo" -> "vertigo"
      [] w = "Delete" -> "delete"
      [] w = "X" -> "x"
      [] OTHER -> w

\* [i for i in available if i in self.request.headers.keys()]
PresentHeaders(available, headers) ==
    SelectSeq(available, LAMBDA i : i \in DOMAIN headers)

\* the test of lines 89 and 99, one header too late
MoreThanTwo(header) == Len(header) > 2

\* the test of lines 89 and 99
MoreThanOne(header) == Len(header) > 1

\* get_mc_assignation_data (lines 86-94)
get_mc_assignation_data(headers) ==
    LET header == PresentHeaders(available_assignation_headers, headers)
    IN  IF MoreThanOne(header)
        THEN [op |-> "assignation", raised |-> "HTTPUnauthorized", value |-> <<>>]
        ELSE IF header = <<>>
        THEN [op |-> "assignation", raised |-> "IndexError", value |-> <<>>]
        ELSE [op |-> "assignation", raised |-> None,
              value |-> <<LowerWord(RSplit(header[1], 1)[2]), headers[header[1]]>>]

\* get_mc_deletion_data (lines 96-104)
get_mc_deletion_data(headers) ==
    LET header == PresentHeaders(available_deletion_headers, headers)
    IN  IF MoreThanOne(header)
        THEN [op |-> "deletion", raised |-> "HTTPUnauthorized", value |-> <<>>]
        ELSE IF header = <<>>
        THEN [op |-> "deletion", raised |-> "IndexError", value |-> <<>>]
        ELSE [op |-> "deletion", raised |-> None,
              value |-> <<LowerWord(RSplit(header[1], 2)[2]), headers[header[1]]>>]

InitHdr ==
    /\ MachineInit
    /\ InvocationInit
    /\ LifeInit
    /\ MetadataInit
    /\ HandleInit
    /\ CacheInit
    /\ DaemonInit
    /\ request_headers \in HeaderRequests
    /\ header_result = <<>>

GetMcAssignationData ==
    /\ header_result = <<>>
    /\ header_result' = get_mc_assignation_data(request_headers)
    /\ UNCHANGED <<machineVars, invocationVars, lifeVars, metadataVars, handleVars,
                   cacheVars, daemonVars, request_headers>>

GetMcDeletionData ==
    /\ header_result = <<>>
    /\ header_result' = get_mc_deletion_data(request_headers)
    /\ UNCHANGED <<machineVars, invocationVars, lifeVars, metadataVars, handleVars,
                   cacheVars, daemonVars, request_headers>>

NextHdr ==
    \/ GetMcAssignationData
    \/ GetMcDeletionData

SpecHdr == InitHdr /\ [][NextHdr]_vars

\* ------------------------------------------------------------ SpecMd
\* set_microcontroller on the objects of one object server process

\* cc.read_metadata: the mapping stored with the object, nothing when the
\* object has none
ReadMetadata(stored) == stored

\* cc.write_metadata: the mapping as stored with the object
WriteMetadata(mapping) == mapping

\* mc.rsplit('.', 1)[0] of a comma-separated list of dot-separated names
RSplitDotHead(mc) == [mc EXCEPT ![Len(mc)] = BaseName(mc[Len(mc)])]

\* set_microcontroller (lines 126-148) on object obj; object_mc_md is the
\* module's DEFAULT_MD_STRING itself when the object has no metadata
set_microcontroller(default, stored, obj, trigger_header, mc) ==
    LET trigger == LowerWord(RSplit(trigger_header, 1)[2])
        object_mc_md == ReadMetadata(stored)
        first == object_mc_md = <<>>
        written == IF first
                   THEN [default EXCEPT ![trigger] = mc]
                   ELSE [object_mc_md EXCEPT ![trigger] = mc]
    IN  [default |-> IF first THEN written ELSE default,
         stored |-> WriteMetadata(written),
         file |-> <<obj, RSplitDotHead(mc), "md">>,
         call |-> [obj |-> obj, trigger |-> trigger, mc |-> mc,
                   had_md |-> ~first, default |-> default, written |-> written]]

SetMicrocontroller ==
    /\ Len(set_log) < MaxSets
    /\ \E obj \in Objects, h \in Range(available_assignation_headers), mc \in McValues :
         LET r == set_microcontroller(DEFAULT_MD_STRING, object_md[obj], obj, h, mc)
         IN  /\ DEFAULT_MD_STRING' = r.default
             /\ object_md' = [object_md EXCEPT ![obj] = r.stored]
             /\ md_files' = md_files \cup {r.file}
             /\ set_log' = Append(set_log, r.call)
    /\ UNCHANGED <<machineVars, invocationVars, lifeVars, headerVars, handleVars,
                   cacheVars, daemonVars, get_result>>

\* the request methods that have a trigger
Methods == {"GET", "PUT", "DELETE"}

\* "on" + req.lower()
OnMethod(req) ==
    CASE req = "GET" -> "onget"
      [] req = "PUT" -> "onput"
      [] req = "DELETE" -> "ondelete"

\* s.split(",") of a comma-separated string: the list of its fields
SplitComma(s) == s

\* self.mc_list == 'None' (line 164): a list compared with a str, which
\* Python never finds equal
ListEqualsNoneStr(l) == FALSE

\* get_microcontrollers (lines 155-168) on the stored metadata of the object
\* for request method req: the value returned and self.mc_list
get_microcontrollers(stored, req) ==
    LET controller_md == ReadMetadata(stored)
    IN  IF controller_md # <<>>
        THEN LET l == SplitComma(controller_md[OnMethod(req)])
             IN  [ret |-> ~ListEqualsNoneStr(l), mc_list |-> l,
                  had_md |-> TRUE, req |-> req]
        ELSE [ret |-> FALSE, mc_list |-> None, had_md |-> FALSE, req |-> req]

GetMicrocontrollers ==
    /\ \E obj \in Objects, req \in Methods :
         get_result' = [obj |-> obj] @@ get_microcontrollers(object_md[obj], req)
    /\ UNCHANGED <<machineVars, invocationVars, lifeVars, headerVars, handleVars,
                   cacheVars, daemonVars, DEFAULT_MD_STRING, object_md, md_files, set_log>>

NextMd ==
    \/ SetMicrocontroller
    \/ GetMicrocontrollers

SpecMd == Init /\ [][NextMd]_vars

\* ------------------------------------------------- claims under Spec
\* a HEAD of the invocation answered outside 200..299
Unresolved ==
    \E i \in 1..Len(events) :
        events[i].op = "HEAD" /\ events[i].status \notin 200..299

\* the handler names on the entries of one type of a datagram, in order
TaggedHandlers(dtg, type) ==
    LET idx == {i \in 1..Len(dtg.metadata) : dtg.metadata[i].type = type}
        RECURSIVE Pick(_)
        Pick(i) == IF i > Len(dtg.metadata) THEN <<>>
                   ELSE IF i \in idx THEN <<dtg.metadata[i].handler>> \o Pick(i + 1)
                   ELSE Pick(i + 1)
    IN  Pick(1)

\* C1: once a handler or a dependency of the list is not found (its HEAD
\* answers outside 2xx), execute_microcontrollers has failed with NameError,
\* the not-found error, and nothing is sent on the sandbox's channel
C1_UnresolvedFailsUnsent ==
    Unresolved => pc = "done" /\ outcome = "NameError" /\ sends = <<>>

\* the missing entry is a dependency of the second handler
C1_Witness ==
    /\ pc = "done"
    /\ outcome = "NameError"
    /\ ri = 2
    /\ events[Len(events)].container = "mc_dependency"
    /\ events[Len(events)].status = 300
    /\ sends = <<>>

IsHandlerFile(k) == k[1] \in {"metadata_file", "logger_file"}

\* C3 as stated: when communicate has returned or raised, the write end of
\* the output pipe and every handler file that was opened have been closed
\* exactly once
C3_ClosedExactlyOnce ==
    pc = "done" =>
        \A k \in DOMAIN handles :
            (k = ResponseWriteFd \/ IsHandlerFile(k)) =>
                ~handles[k].open /\ handles[k].closes = 1

\* C4 as stated: when communicate has ended with Timeout, every file and
\* pipe end the invocation opened is closed
C4_TimeoutLeaksNothing ==
    (pc = "done" /\ outcome = "Timeout") =>
        \A k \in DOMAIN handles : ~handles[k].open

\* C5 as stated: after a docker run that failed for another reason than the
\* name being taken, the invocation has been aborted with an error, no
\* handler resolved and nothing sent
C5_LaunchFailureAborts ==
    launch_failed =>
        /\ pc = "done"
        /\ outcome \notin {None, "Completed"}
        /\ events = <<>>
        /\ sends = <<>>

\* C8 as stated: once start_internal_client_daemon and start_container have
\* returned, a sandbox of the account runs and an internal client daemon
\* listens on the pipe of the invocation's own scope
C8_SandboxAndDaemonOfScope ==
    pc \notin {"idle", "start_internal_client_daemon", "start_container"} =>
        /\ \E i \in 1..Len(containers) :
               containers[i].name = ContainerName(account) /\ containers[i].running
        /\ \E i \in 1..Len(icProcs) :
               icProcs[i] = ScopeClientPipe(Scope(account))

\* --------------------------------------------- claims under SpecLife
\* running sandboxes of a name among the containers cs
Running(cs, name) == {i \in 1..Len(cs) : cs[i].name = name /\ cs[i].running}

\* two calls of start_container in succession for one account
SuccessiveStarts ==
    {i \in 1..(Len(lifeLog) - 1) :
        /\ lifeLog[i].op = "start_container"
        /\ lifeLog[i + 1].op = "start_container"
        /\ lifeLog[i + 1].account = lifeLog[i].account}

\* C6 as stated: after two calls of start_container in succession for one
\* account exactly one sandbox of its name runs, and the second call has
\* raised nothing and changed nothing
C6_SecondStartIdempotent ==
    \A i \in SuccessiveStarts :
        /\ Cardinality(Running(lifeLog[i + 1].after,
                               ContainerName(lifeLog[i].account))) = 1
        /\ ~lifeLog[i + 1].raised
        /\ lifeLog[i + 1].after = lifeLog[i + 1].before

\* C6 amended: the same, for a first call that leaves a sandbox of the
\* account's name running (it started one, or one was there)
C6_SecondStartIdempotentOnceRunning ==
    \A i \in SuccessiveStarts :
        Running(lifeLog[i].after, ContainerName(lifeLog[i].account)) # {} =>
            /\ Cardinality(Running(lifeLog[i + 1].after,
                                   ContainerName(lifeLog[i].account))) = 1
            /\ ~lifeLog[i + 1].raised
            /\ lifeLog[i + 1].after = lifeLog[i + 1].before

\* the first call starts the sandbox, the second finds its name taken
C6_Witness ==
    \E i \in SuccessiveStarts :
        /\ lifeLog[i].why = "started"
        /\ lifeLog[i + 1].why = "exists"
        /\ lifeLog[i + 1].after = lifeLog[i].after

\* the scope whose directories a sandbox mounts
MountedScope(c) == <<c.pipe_mount[1], c.mc_mount[1]>>

\* C7 as stated: no two sandboxes mount the pipe and handler-cache
\* directories of one scope, and the accounts of one scope have one sandbox
\* name and one channel path
C7_OneSandboxPerScope ==
    /\ \A i, j \in 1..Len(containers) :
           MountedScope(containers[i]) = MountedScope(containers[j]) => i = j
    /\ \A i, j \in 1..Len(lifeLog) :
           Scope(lifeLog[i].account) = Scope(lifeLog[j].account) =>
               /\ ContainerName(lifeLog[i].account) = ContainerName(lifeLog[j].account)
               /\ McPipePath(lifeLog[i].account) = McPipePath(lifeLog[j].account)

\* ---------------------------------------------- claims under SpecHdr
Recognized(available) == DOMAIN request_headers \cap Range(available)

\* C9: a request with more than one assignment header makes
\* get_mc_assignation_data raise HTTPUnauthorized and give no (trigger,
\* handler) pair, and a request with more than one deletion header makes
\* get_mc_deletion_data do so
C9_SeveralHeadersRejected ==
    header_result # <<>> =>
        /\ (header_result.op = "assignation"
            /\ Cardinality(Recognized(available_assignation_headers)) > 1)
               => header_result.raised = "HTTPUnauthorized" /\ header_result.value = <<>>
        /\ (header_result.op = "deletion"
            /\ Cardinality(Recognized(available_deletion_headers)) > 1)
               => header_result.raised = "HTTPUnauthorized" /\ header_result.value = <<>>

\* a request with X-Vertigo-Onget and X-Vertigo-Onput is rejected
C9_Witness ==
    /\ header_result # <<>>
    /\ header_result.op = "assignation"
    /\ Recognized(available_assignation_headers)
           = {<<"X", "Vertigo", "Onget">>, <<"X", "Vertigo", "Onput">>}
    /\ header_result.raised = "HTTPUnauthorized"

\* ----------------------------------------------- claims under SpecMd
\* C10 as stated: whatever calls came before, a set_microcontroller on an
\* object without trigger metadata starts from a default mapping of four
\* "None" and writes the trigger it sets and "None" for the other three
C10_FirstWriteFromAllNone ==
    \A i \in 1..Len(set_log) :
        ~set_log[i].had_md =>
            /\ set_log[i].default = DefaultMdString
            /\ set_log[i].written =
                   [t \in Triggers |->
                       IF t = set_log[i].trigger THEN set_log[i].mc ELSE NoneString]


\* the calls of set_microcontroller that set trigger t of object o
Assignments(o, t) ==
    {i \in 1..Len(set_log) : set_log[i].obj = o /\ set_log[i].trigger = t}

\* the handler list last written to trigger t of object o
LastAssigned(o, t) ==
    set_log[CHOOSE i \in Assignments(o, t) : \A j \in Assignments(o, t) : j <= i].mc

\* C11 as stated: the metadata read back from an object that
\* set_microcontroller wrote has, for every trigger, the handler list last
\* assigned to it on that object, and "None" for a trigger never assigned
C11_RoundTrip ==
    \A o \in Objects :
        ReadMetadata(object_md[o]) # <<>> =>
            \A t \in Triggers :
                ReadMetadata(object_md[o])[t] =
                    IF Assignments(o, t) = {} THEN NoneString ELSE LastAssigned(o, t)

\* C15 as stated: get_microcontrollers returns False for an object without
\* trigger metadata and for a trigger stored as "None", and True only with
\* a list of real handlers in self.mc_list
C15_NoHandlersReportedFalse ==
    get_result # <<>> =>
        /\ ~get_result.had_md => ~get_result.ret
        /\ (get_result.had_md
            /\ ReadMetadata(object_md[get_result.obj])[OnMethod(get_result.req)] = NoneString)
               => ~get_result.ret
        /\ get_result.ret => get_result.mc_list # NoneString


\* C12 as stated: a send status other than zero is fatal: the invocation
\* ends with the exception of _invoke, having never waited on the response
\* pipe and with no result
C12_NonZeroSendFatal ==
    (Len(sends) = 1 /\ sends[1].rc # 0 /\ pc # "finally") =>
        pc = "done" /\ outcome = "Exception" /\ waited = None /\ out_data = None

\* C12 amended: a negative send status is fatal (the exception of _invoke,
\* no wait on the response pipe, no result); a zero or positive status lets
\* the invocation go on to await the response
C12_NegativeSendFatal ==
    (Len(sends) = 1 /\ pc # "finally") =>
        IF sends[1].rc < 0
        THEN pc = "done" /\ outcome = "Exception" /\ waited = None /\ out_data = None
        ELSE \/ pc = "read_response" /\ waited = None
             \/ pc = "done" /\ waited # None
                /\ outcome \in {"Timeout", "ValueError", "Completed"}

C12_Witness ==
    /\ Len(sends) = 1 /\ sends[1].rc < 0
    /\ pc = "done" /\ outcome = "Exception" /\ waited = None

ClosedHandlerFiles == {k \in DOMAIN handles : IsHandlerFile(k) /\ ~handles[k].open}

Tagged(t) == {i \in 1..Len(sends[1].metadata) : sends[1].metadata[i].type = t}

\* C19: the descriptor set sent for a chain of n handlers has 2n+2
\* descriptors and as many tags, one input entry, one output entry with the
\* write end of the output pipe, and per handler one log entry with its log
\* file and name and one metadata entry with its metadata file, name, main
\* class and dependencies
C19_DescriptorSetWellFormed ==
    Len(sends) = 1 =>
        LET f == sends[1].files
            m == sends[1].metadata
            n == Len(mc_list)
        IN  /\ Len(f) = 2 * n + 2
            /\ Len(m) = 2 * n + 2
            /\ Cardinality(Tagged(SBUS_FD_INPUT_OBJECT)) = 1
            /\ \A i \in Tagged(SBUS_FD_INPUT_OBJECT) : f[i] = NullWriteFd
            /\ Cardinality(Tagged(SBUS_FD_OUTPUT_OBJECT)) = 1
            /\ \A i \in Tagged(SBUS_FD_OUTPUT_OBJECT) :
                  f[i] = ResponseWriteFd /\ ResponseWriteFd \in DOMAIN handles
            /\ Cardinality(Tagged(SBUS_FD_LOGGER)) = n
            /\ Cardinality(Tagged(SBUS_FD_OUTPUT_OBJECT_METADATA)) = n
            /\ \A j \in 1..n :
                  /\ \E i \in Tagged(SBUS_FD_LOGGER) :
                        /\ f[i] = LoggerFile(j)
                        /\ m[i].handler = mc_list[j]
                        /\ \A i2 \in Tagged(SBUS_FD_LOGGER) : f[i2] = LoggerFile(j) => i2 = i
                  /\ \E i \in Tagged(SBUS_FD_OUTPUT_OBJECT_METADATA) :
                        /\ f[i] = MetadataFile(j)
                        /\ m[i].handler = mc_list[j]
                        /\ m[i].main = mc_metadata[mc_list[j]][MC_MAIN_HEADER]
                        /\ m[i].dependencies = mc_metadata[mc_list[j]][MC_DEP_HEADER]
                        /\ \A i2 \in Tagged(SBUS_FD_OUTPUT_OBJECT_METADATA) :
                              f[i2] = MetadataFile(j) => i2 = i

C19_Witness ==
    /\ Len(sends) = 1
    /\ Len(mc_list) = MaxChain
    /\ Len(sends[1].files) = 2 * MaxChain + 2

\* the request metadata serialized into the input entry of the datagram sent
SentReqMd ==
    sends[1].metadata[CHOOSE i \in Tagged(SBUS_FD_INPUT_OBJECT) : TRUE].json_md.req_md

\* the headers _add_file_req_md deletes
TransportHeaders == {"X-Service-Catalog", "Cookie"}

C20_SentWithoutTransportHeaders ==
    Len(sends) = 1 =>
        /\ DOMAIN SentReqMd \cap TransportHeaders = {}
        /\ DOMAIN SentReqMd = DOMAIN req_headers \ TransportHeaders
        /\ \A h \in DOMAIN SentReqMd : SentReqMd[h] = req_headers[h]

\* while the protocol object lives the headers of the request stay as they are
RequestKeepsHeaders ==
    pc \in {"open", "prepare", "invoke", "finally", "read_response"}
        => req_headers' = req_headers

\* C20: the request metadata of the input entry has neither
\* X-Service-Catalog nor Cookie and has every other header of the request
\* with its value; from the construction of the protocol object to the end of
\* communicate the headers of the request itself do not change
C20_SanitizedCopy ==
    /\ []C20_SentWithoutTransportHeaders
    /\ [][RequestKeepsHeaders]_vars

C20_Witness ==
    /\ Len(sends) = 1
    /\ TransportHeaders \subseteq DOMAIN req_headers
    /\ "X-Current-Server" \in DOMAIN SentReqMd
    /\ "Cookie" \notin DOMAIN SentReqMd


\* --------------------------------------------------------- SpecHandle
\* MicroController.open and MicroController.close called on handler objects

\* file.close() of the file object held by attribute f: closing a closed
\* file does nothing
FileClose(mc, f) ==
    IF f \in DOMAIN mc.closed_files THEN mc.closed_files ELSE (f :> 1) @@ mc.closed_files

\* MicroController.open (lines 411-413); io tells which open() raises
\* IOError; attrs are the attributes that hold an open file afterwards
MicroControllerOpen(mc, io) ==
    CASE io = "metadata_fails" -> [mc EXCEPT !.opened = io]
      [] io = "logger_fails" -> [mc EXCEPT !.opened = io, !.attrs = {"metadata_file"}]
      [] OTHER -> [mc EXCEPT !.opened = io, !.attrs = {"metadata_file", "logger_file"}]

\* MicroController.close (lines 434-436): an attribute that open() never set
\* raises AttributeError where it is read
MicroControllerClose(mc) ==
    IF "metadata_file" \notin mc.attrs
    THEN [mc EXCEPT !.closed = "AttributeError", !.close_calls = @ + 1]
    ELSE IF "logger_file" \notin mc.attrs
    THEN [mc EXCEPT !.closed_files = FileClose(mc, "metadata_file"),
                    !.closed = "AttributeError", !.close_calls = @ + 1]
    ELSE [mc EXCEPT !.closed_files =
                        FileClose([mc EXCEPT !.closed_files = FileClose(mc, "metadata_file")],
                                  "logger_file"),
                    !.closed = "returned", !.close_calls = @ + 1]

HandlerOpen ==
    /\ \E i \in DOMAIN handlers, io \in {"ok", "metadata_fails", "logger_fails"} :
         /\ handlers[i].opened = None
         /\ handlers' = [handlers EXCEPT ![i] = MicroControllerOpen(@, io)]
    /\ UNCHANGED <<machineVars, invocationVars, lifeVars, headerVars, metadataVars,
                   cacheVars, daemonVars>>

HandlerClose ==
    /\ \E i \in DOMAIN handlers :
         /\ handlers[i].opened # None
         /\ handlers[i].close_calls < MaxCalls
         /\ handlers' = [handlers EXCEPT ![i] = MicroControllerClose(@)]
    /\ UNCHANGED <<machineVars, invocationVars, lifeVars, headerVars, metadataVars,
                   cacheVars, daemonVars>>

NextHandle ==
    \/ HandlerOpen
    \/ HandlerClose

SpecHandle == Init /\ [][NextHandle]_vars

\* C13 as stated: close() after an open() that failed part of the way raises
\* nothing and leaves every file that open() did open closed, closed once
C13_CloseSafeAfterPartialOpen ==
    \A i \in DOMAIN handlers :
        (handlers[i].opened \in {"metadata_fails", "logger_fails"}
         /\ handlers[i].closed # None) =>
            /\ handlers[i].closed = "returned"
            /\ \A f \in handlers[i].attrs :
                  f \in DOMAIN handlers[i].closed_files /\ handlers[i].closed_files[f] = 1


\* --------------------------------------------------------- SpecCache
\* update_mc_cache (lines 236-248) run by overlapping invocations for the
\* same object of the same scope, step by step, with the sandbox reading the
\* file at any moment

\* a write of one chunk at offset off of a file: past the end of the file
\* the gap reads as zero bytes
WriteAt(content, off, chunk) ==
    IF off < Len(content)
    THEN [content EXCEPT ![off + 1] = chunk]
    ELSE content \o [i \in 1..(off - Len(content)) |-> "zeros"] \o <<chunk>>

\* line 237: the GET answers with the body of the object
CacheGet(w) ==
    /\ UNCHANGED notCacheVars
    /\ cache_pc[w] = "get"
    /\ \E body \in Bodies : cache_body' = [cache_body EXCEPT ![w] = body]
    /\ cache_pc' = [cache_pc EXCEPT ![w] = "exists"]
    /\ UNCHANGED <<cache_off, cache_dir, cache_file, cache_last, cache_seen>>

\* line 243: os.path.exists(docker_mc_path)
CacheExists(w) ==
    /\ UNCHANGED notCacheVars
    /\ cache_pc[w] = "exists"
    /\ cache_pc' = [cache_pc EXCEPT ![w] = IF cache_dir THEN "open" ELSE "makedirs"]
    /\ UNCHANGED <<cache_body, cache_off, cache_dir, cache_file, cache_last, cache_seen>>

\* line 244: os.makedirs raises OSError when the directory is there by now
CacheMakedirs(w) ==
    /\ UNCHANGED notCacheVars
    /\ cache_pc[w] = "makedirs"
    /\ cache_pc' = [cache_pc EXCEPT ![w] = IF cache_dir THEN "OSError" ELSE "open"]
    /\ cache_dir' = TRUE
    /\ UNCHANGED <<cache_body, cache_off, cache_file, cache_last, cache_seen>>

\* line 246: open(docker_target_path, 'w') creates the file or truncates it
CacheOpen(w) ==
    /\ UNCHANGED notCacheVars
    /\ cache_pc[w] = "open"
    /\ cache_file' = [exists |-> TRUE, content |-> <<>>]
    /\ cache_off' = [cache_off EXCEPT ![w] = 0]
    /\ cache_pc' = [cache_pc EXCEPT ![w] = "write"]
    /\ UNCHANGED <<cache_body, cache_dir, cache_last, cache_seen>>

\* lines 247-248: fn.write(resp.body) reaches the file chunk by chunk, the
\* last chunk by fn.close() at the latest
CacheWrite(w) ==
    /\ UNCHANGED notCacheVars
    /\ cache_pc[w] = "write"
    /\ cache_off[w] < Len(cache_body[w])
    /\ cache_file' = [cache_file EXCEPT
                        !.content = WriteAt(@, cache_off[w], cache_body[w][cache_off[w] + 1])]
    /\ cache_off' = [cache_off EXCEPT ![w] = @ + 1]
    /\ UNCHANGED <<cache_pc, cache_body, cache_dir, cache_last, cache_seen>>

\* line 248: fn.close() returns
CacheClose(w) ==
    /\ UNCHANGED notCacheVars
    /\ cache_pc[w] = "write"
    /\ cache_off[w] = Len(cache_body[w])
    /\ cache_pc' = [cache_pc EXCEPT ![w] = "done"]
    /\ cache_last' = w
    /\ UNCHANGED <<cache_body, cache_off, cache_dir, cache_file, cache_seen>>

\* the sandbox reads the file at the entry's path
CacheRead ==
    /\ UNCHANGED notCacheVars
    /\ cache_seen' = [read |-> TRUE, exists |-> cache_file.exists,
                      content |-> cache_file.content]
    /\ UNCHANGED <<cache_pc, cache_body, cache_off, cache_dir, cache_file, cache_last>>

NextCache ==
    \/ \E w \in Mirrors : CacheGet(w)
    \/ \E w \in Mirrors : CacheExists(w)
    \/ \E w \in Mirrors : CacheMakedirs(w)
    \/ \E w \in Mirrors : CacheOpen(w)
    \/ \E w \in Mirrors : CacheWrite(w)
    \/ \E w \in Mirrors : CacheClose(w)
    \/ CacheRead

SpecCache == Init /\ [][NextCache]_vars

\* C17 as stated: whatever the sandbox reads at the path of a cache entry is
\* the whole body some mirror received, never an empty or partly written
\* file, and once the mirrors have ended the file holds the body of the one
\* that closed last
C17_NoPartialCacheFile ==
    /\ (cache_seen.read /\ cache_seen.exists) => cache_seen.content \in Bodies
    /\ (cache_last # 0 /\ \A w \in Mirrors : cache_pc[w] \in {"done", "OSError"}) =>
          cache_file.content = cache_body[cache_last]


\* --------------------------------------------------------- SpecDaemon
\* start_internal_client_daemon (lines 55-83) run by overlapping
\* invocations of one server, step by step

\* lines 58-59: the pipeline of ps, read when it has ended
DaemonPs(c) ==
    /\ UNCHANGED notDaemonVars
    /\ daemon_pc[c] = "ps"
    /\ daemon_pid' = [daemon_pid EXCEPT ![c] = InternalClientPids(icProcs)]
    /\ daemon_pc' = [daemon_pc EXCEPT
                        ![c] = IF InternalClientPids(icProcs) # <<>> THEN "done" ELSE "launch"]
    /\ UNCHANGED <<icProcs, daemon_launch>>

\* lines 65-81: subprocess.call of the command line ending in `&`; the pids
\* ps gave are not looked at again
DaemonLaunch(c) ==
    /\ UNCHANGED notDaemonVars
    /\ daemon_pc[c] = "launch"
    /\ \E launch \in {"started", "died", "failed"} :
         /\ icProcs' = icProcs \o StartInternalClientDaemonProcs(daemon_pid[c], launch)
         /\ daemon_launch' = [daemon_launch EXCEPT ![c] = launch]
    /\ daemon_pc' = [daemon_pc EXCEPT ![c] = "sleep"]
    /\ UNCHANGED daemon_pid

\* line 83: time.sleep(1), then the return
DaemonSleep(c) ==
    /\ UNCHANGED notDaemonVars
    /\ daemon_pc[c] = "sleep"
    /\ daemon_pc' = [daemon_pc EXCEPT ![c] = "done"]
    /\ UNCHANGED <<icProcs, daemon_pid, daemon_launch>>

NextDaemon ==
    \/ \E c \in Callers : DaemonPs(c)
    \/ \E c \in Callers : DaemonLaunch(c)
    \/ \E c \in Callers : DaemonSleep(c)

SpecDaemon == Init /\ [][NextDaemon]_vars

\* C18 as stated: however the calls of start_internal_client_daemon overlap,
\* at most one internal client daemon runs, and a call whose ps found one
\* launches nothing
C18_AtMostOneDaemon ==
    /\ Len(icProcs) <= 1
    /\ \A c \in Callers : daemon_pid[c] # <<>> => daemon_launch[c] = None


\* ------------------------------------------- further claims under Spec
\* C21: every GET that mirrors an object into the handler cache comes right
\* after a HEAD of the same object in the same container, made in the same
\* invocation, that answered 2xx; a HEAD that answered otherwise is the last
\* request of the invocation; and an invocation that got past the loop has
\* made a HEAD for every handler of its list
C21_MirrorOnlyAfterCheck ==
    /\ \A i \in 1..Len(events) :
          events[i].op = "GET" =>
              /\ i > 1
              /\ events[i - 1].op = "HEAD"
              /\ events[i - 1].container = events[i].container
              /\ events[i - 1].obj = events[i].obj
              /\ events[i - 1].status \in 200..299
    /\ \A i \in 1..Len(events) :
          (events[i].op = "HEAD" /\ events[i].status \notin 200..299) => i = Len(events)
    /\ \A j \in 1..Len(mc_list) :
          (j < ri /\ pc # "idle") =>
              \E i \in 1..Len(events) :
                  /\ events[i].op = "HEAD"
                  /\ events[i].container = "mc_container"
                  /\ events[i].obj = mc_list[j]

\* the second invocation of the server mirrors a handler and a dependency
C21_Witness ==
    /\ invocations = MaxInvocations
    /\ ri > Len(mc_list)
    /\ \E i \in 1..Len(events) :
          events[i].op = "GET" /\ events[i].container = "mc_dependency"
    /\ \E i \in 1..Len(events) :
          events[i].op = "GET" /\ events[i].container = "mc_container"

C23_CompletedLeaksNothing ==
    (pc = "done" /\ outcome = "Completed") =>
        /\ RawFds \subseteq DOMAIN handles
        /\ \A k \in DOMAIN handles : ~handles[k].open

====
